---- MODULE Spec2Model ----
(***************************************************************************)
(* Model of the intraday trading bot of src/app1.py: the virtual account   *)
(* kept in the session state (balance, portfolio, trade_log, bot_active)   *)
(* and execute_trade_cycle, which sells positions that hit the target or   *)
(* the stop loss and then buys the momentum signals of analyze_market.     *)
(*                                                                         *)
(* Money is counted in quarter paise (1 rupee = 400 units), so that every  *)
(* price of the model is an integer and round(x, 2) is a real conversion.  *)
(* Arithmetic is exact; the representation error of Python floats is not   *)
(* modelled.  The "Time" field of a trade record is left out.              *)
(***************************************************************************)
EXTENDS Integers, Sequences, FiniteSets, TLC

\* Number of cycles a behaviour runs (the script reruns for ever).
MaxCycles == 3

\* Number of buys and sells a behaviour of LedgerSpec applies.
MaxOps == 4

\* Units of money per rupee: 100 paise of 4 quarter paise each.
Rupee == 100 * 4

--------------------------------------------------------------------------
\* Configuration

INITIAL_CAPITAL == 1000000 * Rupee

\* 0.20, 0.02, 0.01 and the literal 0.005 of analyze_market, as fractions.
MAX_ALLOCATION_PER_TRADE == <<1, 5>>
TARGET_PROFIT == <<2, 100>>
STOP_LOSS == <<1, 100>>
MOMENTUM_THRESHOLD == <<5, 1000>>

\* The first three tickers of the watchlist, in the order of the source.
WATCHLIST == <<"RELIANCE.NS", "TCS.NS", "INFY.NS">>

Tickers == {WATCHLIST[i] : i \in 1..Len(WATCHLIST)}

--------------------------------------------------------------------------
\* Market data: the latest bar of each ticker the feed returned.

Bar(o, c) == [Open |-> o, Close |-> c]

\* The bars the feed may return for a ticker (quarter paise).
BarsOf(ticker) ==
    IF ticker = "RELIANCE.NS"
    THEN { Bar(63360000, 64000000) }      \* close 160,000: 0.20 of 800,000
    ELSE IF ticker = "TCS.NS"
    THEN { Bar(39200, 40000),             \* signal, close 100.00
           Bar(40000, 40800),             \* signal of exactly +2%
           Bar(40000, 40201),             \* signal, close 100.5025
           Bar(40000, 40200),             \* exactly +0.5%: no signal
           Bar(40000, 39600) }            \* exactly -1%
    ELSE { Bar(39200, 40000),
           Bar(40000, 40800),
           Bar(40700, 40799),             \* just under +2% of 100.00
           Bar(39700, 39601) }            \* just above -1% of 100.00

AllBars == UNION {BarsOf(t) : t \in Tickers}

\* Result of get_live_data: None, or the frame with the tickers it holds.
\* "unfetched" stands for a cycle that never called get_live_data.
NoBars == [t \in {} |-> Bar(0, 0)]
Unfetched == [status |-> "unfetched", bars |-> NoBars]
None == [status |-> "none", bars |-> NoBars]

Frames ==
    { [status |-> "ok", bars |-> f] :
        f \in UNION { {g \in [S -> AllBars] : \A t \in S : g[t] \in BarsOf(t)}
                      : S \in SUBSET Tickers } }

get_live_data == {None} \cup Frames

\* data[ticker] succeeds (no TypeError on None, no KeyError).
HasTicker(d, ticker) == d.status = "ok" /\ ticker \in DOMAIN d.bars

--------------------------------------------------------------------------
\* Arithmetic helpers

RECURSIVE GCD(_, _)
GCD(a, b) == IF b = 0 THEN a ELSE GCD(b, a % b)

Abs(x) == IF x < 0 THEN -x ELSE x

\* The quotient n / d (d > 0) in lowest terms.
Frac(n, d) == LET g == GCD(Abs(n), d) IN <<n \div g, d \div g>>

FracLess(a, b) == a[1] * b[2] < b[1] * a[2]

\* round(x, 2): to the nearest paise, a tie going to the even paise.
Round2(x) ==
    LET q == x \div 4
        r == x % 4
    IN  IF r < 2 THEN 4 * q
        ELSE IF r > 2 THEN 4 * (q + 1)
        ELSE IF q % 2 = 0 THEN 4 * q ELSE 4 * (q + 1)

--------------------------------------------------------------------------
\* The virtual account and the observations of the last cycle

VARIABLES
    balance,      \* st.session_state.balance
    portfolio,    \* st.session_state.portfolio, in insertion order
    trade_log,    \* st.session_state.trade_log
    bot_active,   \* st.session_state.bot_active
    cycles,       \* calls of execute_trade_cycle so far
    market_open,  \* what is_market_open returned in the last cycle
    data,         \* what get_live_data returned in the last cycle
    fetches,      \* calls of get_live_data so far
    to_sell,      \* the to_sell list of the last cycle
    attempts      \* the iterations of the buy loop of the last cycle

vars == <<balance, portfolio, trade_log, bot_active, cycles, market_open,
          data, fetches, to_sell, attempts>>

\* {'qty': qty, 'buy_price': price} stored under portfolio[ticker]
Position(ticker, qty, price) ==
    [ticker |-> ticker, qty |-> qty, buy_price |-> price]

Held(pf) == {pf[i].ticker : i \in 1..Len(pf)}

\* portfolio[ticker] = {...}: a new key goes last, a known key is replaced.
SetItem(pf, pos) ==
    IF pos.ticker \in Held(pf)
    THEN [i \in 1..Len(pf) |->
             IF pf[i].ticker = pos.ticker THEN pos ELSE pf[i]]
    ELSE Append(pf, pos)

\* A removal that looks only at the first ticker of to_sell.
DelFirstSold(pf, sold) ==
    SelectSeq(pf, LAMBDA pos : sold = <<>> \/ sold[1] # pos.ticker)

\* del portfolio[ticker] for every ticker of to_sell
DelSold(pf, sold) ==
    SelectSeq(pf, LAMBDA pos : \A i \in 1..Len(sold) : sold[i] # pos.ticker)

--------------------------------------------------------------------------
\* Sell logic

\* pnl_pct >= TARGET_PROFIT or pnl_pct <= -STOP_LOSS,
\* with pnl_pct = (current_price - buy_price) / buy_price and buy_price > 0
\* (SellCheckStrict: the same check with both bounds exclusive)
SellCheckStrict(current_price, buy_price) ==
    \/ (current_price - buy_price) * TARGET_PROFIT[2]
           > TARGET_PROFIT[1] * buy_price
    \/ (current_price - buy_price) * STOP_LOSS[2]
           < -(STOP_LOSS[1] * buy_price)

SellCheck(current_price, buy_price) ==
    \/ (current_price - buy_price) * TARGET_PROFIT[2]
           >= TARGET_PROFIT[1] * buy_price
    \/ (current_price - buy_price) * STOP_LOSS[2]
           <= -(STOP_LOSS[1] * buy_price)

SellRecord(ticker, current_price, qty, buy_price) ==
    [Action |-> "SELL",
     Ticker |-> ticker,
     Price  |-> Round2(current_price),
     Qty    |-> qty,
     PnL    |-> Round2(qty * current_price - qty * buy_price)]

\* A sale that credits the price as the trade record shows it.
ApplySellAtRecordedPrice(acc, pos, current_price) ==
    [balance   |-> acc.balance + pos.qty * Round2(current_price),
     trade_log |-> Append(acc.trade_log,
                     SellRecord(pos.ticker, current_price, pos.qty,
                                pos.buy_price)),
     to_sell   |-> Append(acc.to_sell, pos.ticker)]

\* The body of the sell check for one position: balance, log and to_sell.
ApplySell(acc, pos, current_price) ==
    [balance   |-> acc.balance + pos.qty * current_price,
     trade_log |-> Append(acc.trade_log,
                     SellRecord(pos.ticker, current_price, pos.qty,
                                pos.buy_price)),
     to_sell   |-> Append(acc.to_sell, pos.ticker)]

\* The iteration liquidating, at its entry price, a position whose price
\* it cannot read.
SellStepLiquidateOnGap(acc, pos, d) ==
    IF ~HasTicker(d, pos.ticker) THEN ApplySell(acc, pos, pos.buy_price)
    ELSE IF SellCheck(d.bars[pos.ticker].Close, pos.buy_price)
         THEN ApplySell(acc, pos, d.bars[pos.ticker].Close)
         ELSE acc

\* One iteration of "for ticker, pos in portfolio.items()"; an exception
\* (data is None, the ticker is not in the frame) skips the position.
SellStep(acc, pos, d) ==
    IF ~HasTicker(d, pos.ticker) THEN acc
    ELSE IF SellCheck(d.bars[pos.ticker].Close, pos.buy_price)
         THEN ApplySell(acc, pos, d.bars[pos.ticker].Close)
         ELSE acc

RECURSIVE SellLoop(_, _, _, _)
SellLoop(acc, pf, d, i) ==
    IF i > Len(pf) THEN acc
    ELSE SellLoop(SellStep(acc, pf[i], d), pf, d, i + 1)

--------------------------------------------------------------------------
\* Momentum signals

\* pct_change = (close_price - open_price) / open_price
PctChange(bar) == Frac(bar.Close - bar.Open, bar.Open)

\* The threshold taken as inclusive.
IsSignalAtThreshold(bar) == ~FracLess(PctChange(bar), MOMENTUM_THRESHOLD)

\* pct_change > 0.005
IsSignal(bar) == FracLess(MOMENTUM_THRESHOLD, PctChange(bar))

Signal(ticker, bar) ==
    [ticker |-> ticker, price |-> bar.Close, change |-> PctChange(bar)]

\* "for ticker in WATCHLIST": a ticker missing from the frame raises
\* KeyError and is skipped.
RECURSIVE Signals(_, _)
Signals(d, i) ==
    IF i > Len(WATCHLIST) THEN <<>>
    ELSE LET ticker == WATCHLIST[i]
             rest   == Signals(d, i + 1)
         IN  IF ticker \in DOMAIN d.bars /\ IsSignal(d.bars[ticker])
             THEN <<Signal(ticker, d.bars[ticker])>> \o rest
             ELSE rest

\* x also goes before the elements whose change equals its own.
ComesBeforeOrWith(x, y) == ~FracLess(x.change, y.change)

\* x goes before the first element whose change is smaller than its own.
ComesBefore(x, y) == FracLess(y.change, x.change)

RECURSIVE InsertSignal(_, _)
InsertSignal(sorted, x) ==
    IF sorted = <<>> THEN <<x>>
    ELSE IF ComesBefore(x, Head(sorted)) THEN <<x>> \o sorted
    ELSE <<Head(sorted)>> \o InsertSignal(Tail(sorted), x)

\* sorted(signals, key=change, reverse=True): stable, so signals of equal
\* change keep the order in which the watchlist produced them.
RECURSIVE SortSignals(_, _)
SortSignals(signals, i) ==
    IF i = 0 THEN <<>>
    ELSE InsertSignal(SortSignals(signals, i - 1), signals[i])

analyze_market(d) ==
    IF d.status # "ok" \/ DOMAIN d.bars = {} THEN <<>>
    ELSE LET signals == Signals(d, 1)
         IN  SortSignals(signals, Len(signals))

--------------------------------------------------------------------------
\* Buy logic

\* The comparison taken as inclusive.
CanAllocateInclusive(bal, price) ==
    bal * MAX_ALLOCATION_PER_TRADE[1] >= price * MAX_ALLOCATION_PER_TRADE[2]

\* allocatable_cash > price, with allocatable_cash = balance * 0.20
CanAllocate(bal, price) ==
    bal * MAX_ALLOCATION_PER_TRADE[1] > price * MAX_ALLOCATION_PER_TRADE[2]

\* Sizing that divides the balance by the limit instead of multiplying.
QuantityDividedByLimit(bal, price) ==
    (bal * MAX_ALLOCATION_PER_TRADE[2])
        \div (MAX_ALLOCATION_PER_TRADE[1] * price)

\* Sizing that rounds the quotient up instead of down.
QuantityRoundedUp(bal, price) ==
    (bal * MAX_ALLOCATION_PER_TRADE[1])
        \div (MAX_ALLOCATION_PER_TRADE[2] * price) + 1

\* int(allocatable_cash // price)
Quantity(bal, price) ==
    (bal * MAX_ALLOCATION_PER_TRADE[1])
        \div (MAX_ALLOCATION_PER_TRADE[2] * price)

BuyRecord(ticker, price, qty) ==
    [Action |-> "BUY",
     Ticker |-> ticker,
     Price  |-> Round2(price),
     Qty    |-> qty,
     PnL    |-> 0]

\* What one iteration of the buy loop saw and did (qty 0: nothing bought).
Attempt(opp, bal, owned, qty) ==
    [ticker |-> opp.ticker, price |-> opp.price, change |-> opp.change,
     balance |-> bal, owned |-> owned, qty |-> qty]

\* A buy that puts its record at the head of the log, newest first.
ApplyBuyNewestFirst(acc, opp, qty) ==
    [balance   |-> acc.balance - qty * opp.price,
     portfolio |-> SetItem(acc.portfolio,
                           Position(opp.ticker, qty, opp.price)),
     trade_log |-> <<BuyRecord(opp.ticker, opp.price, qty)>>
                       \o acc.trade_log,
     attempts  |-> Append(acc.attempts,
                          Attempt(opp, acc.balance, FALSE, qty))]

\* "Execute Buy"
ApplyBuy(acc, opp, qty) ==
    [balance   |-> acc.balance - qty * opp.price,
     portfolio |-> SetItem(acc.portfolio,
                           Position(opp.ticker, qty, opp.price)),
     trade_log |-> Append(acc.trade_log,
                          BuyRecord(opp.ticker, opp.price, qty)),
     attempts  |-> Append(acc.attempts,
                          Attempt(opp, acc.balance, FALSE, qty))]

Skip(acc, opp, owned) ==
    [acc EXCEPT !.attempts = Append(@, Attempt(opp, acc.balance, owned, 0))]

\* The buy loop without its "already owned" check.
BuyStepNoOwnedCheck(acc, opp) ==
    IF CanAllocate(acc.balance, opp.price)
    THEN ApplyBuy(acc, opp, Quantity(acc.balance, opp.price))
    ELSE Skip(acc, opp, FALSE)

\* One iteration of "for opp in opportunities"
BuyStep(acc, opp) ==
    IF opp.ticker \in Held(acc.portfolio) THEN Skip(acc, opp, TRUE)
    ELSE IF CanAllocate(acc.balance, opp.price)
         THEN ApplyBuy(acc, opp, Quantity(acc.balance, opp.price))
         ELSE Skip(acc, opp, FALSE)

\* A buy loop that ends at the first opportunity it cannot afford.
RECURSIVE BuyLoopStopAtSkip(_, _, _)
BuyLoopStopAtSkip(acc, opportunities, i) ==
    IF i > Len(opportunities) THEN acc
    ELSE LET opp == opportunities[i]
         IN  IF /\ opp.ticker \notin Held(acc.portfolio)
                /\ ~CanAllocate(acc.balance, opp.price)
             THEN Skip(acc, opp, FALSE)
             ELSE BuyLoopStopAtSkip(BuyStep(acc, opp), opportunities, i + 1)

RECURSIVE BuyLoop(_, _, _)
BuyLoop(acc, opportunities, i) ==
    IF i > Len(opportunities) THEN acc
    ELSE BuyLoop(BuyStep(acc, opportunities[i]), opportunities, i + 1)

--------------------------------------------------------------------------
\* The cycle

\* A cycle that runs its buy logic before its sell logic.
TradeCycleBuyFirst(bal, pf, log, d) ==
    LET done == BuyLoop([balance |-> bal, portfolio |-> pf,
                         trade_log |-> log, attempts |-> <<>>],
                        analyze_market(d), 1)
        sold == SellLoop([balance |-> done.balance,
                          trade_log |-> done.trade_log,
                          to_sell |-> <<>>], done.portfolio, d, 1)
    IN  [balance |-> sold.balance,
         portfolio |-> DelSold(done.portfolio, sold.to_sell),
         trade_log |-> sold.trade_log, to_sell |-> sold.to_sell,
         attempts |-> done.attempts]

\* A cycle that removes the sold positions only after its buy logic.
TradeCycleDeleteLast(bal, pf, log, d) ==
    LET sold == SellLoop([balance |-> bal, trade_log |-> log,
                          to_sell |-> <<>>], pf, d, 1)
        done == BuyLoop([balance |-> sold.balance, portfolio |-> pf,
                         trade_log |-> sold.trade_log, attempts |-> <<>>],
                        analyze_market(d), 1)
    IN  [balance |-> done.balance,
         portfolio |-> DelSold(done.portfolio, sold.to_sell),
         trade_log |-> done.trade_log, to_sell |-> sold.to_sell,
         attempts |-> done.attempts]

\* The account after the sell logic and the buy logic have run on d.
TradeCycle(bal, pf, log, d) ==
    LET sold == SellLoop([balance |-> bal, trade_log |-> log,
                          to_sell |-> <<>>], pf, d, 1)
        kept == DelSold(pf, sold.to_sell)
        done == BuyLoop([balance |-> sold.balance, portfolio |-> kept,
                         trade_log |-> sold.trade_log, attempts |-> <<>>],
                        analyze_market(d), 1)
    IN  [balance |-> done.balance, portfolio |-> done.portfolio,
         trade_log |-> done.trade_log, to_sell |-> sold.to_sell,
         attempts |-> done.attempts]

\* A bot that trades whatever the hour.
NeverSleeping(is_open) == FALSE

\* "if not is_market_open(): ... return"
Sleeping(is_open) == ~is_open

Init ==
    /\ balance = INITIAL_CAPITAL
    /\ portfolio = <<>>
    /\ trade_log = <<>>
    /\ bot_active = FALSE
    /\ cycles = 0
    /\ market_open = FALSE
    /\ data = Unfetched
    /\ fetches = 0
    /\ to_sell = <<>>
    /\ attempts = <<>>

\* The "Start/Stop Bot" button
ToggleBot ==
    /\ bot_active' = ~bot_active
    /\ UNCHANGED <<balance, portfolio, trade_log, cycles, market_open, data,
                   fetches, to_sell, attempts>>

\* A script that runs the cycle whatever the state of the bot.
AutoRunAlways == TRUE

\* "if st.session_state.bot_active:" before the call of the cycle
AutoRun == bot_active

\* execute_trade_cycle, run by the script while the bot is active; is_open
\* is the answer of is_market_open and d that of get_live_data.
execute_trade_cycle(is_open, d) ==
    /\ AutoRun
    /\ cycles < MaxCycles
    /\ cycles' = cycles + 1
    /\ market_open' = is_open
    /\ UNCHANGED bot_active
    /\ IF Sleeping(is_open)
       THEN /\ data' = Unfetched
            /\ to_sell' = <<>>
            /\ attempts' = <<>>
            /\ UNCHANGED <<balance, portfolio, trade_log, fetches>>
       ELSE LET r == TradeCycle(balance, portfolio, trade_log, d)
            IN  /\ data' = d
                /\ fetches' = fetches + 1
                /\ balance' = r.balance
                /\ portfolio' = r.portfolio
                /\ trade_log' = r.trade_log
                /\ to_sell' = r.to_sell
                /\ attempts' = r.attempts

\* A closed market is given no data: get_live_data is not called.
Cycle ==
    \E is_open \in BOOLEAN :
        \E d \in (IF is_open THEN get_live_data ELSE {Unfetched}) :
            execute_trade_cycle(is_open, d)

Next == ToggleBot \/ Cycle

Spec == Init /\ [][Next]_vars

--------------------------------------------------------------------------
\* The two mutations of the account taken alone, on prices drawn from the
\* bars: the body of the buy loop for one opportunity, and the sale of one
\* position with the removal that follows it, whatever its PnL.  cycles
\* counts the operations applied and data holds the bar of the last one.

OneBar(ticker, bar) ==
    [status |-> "ok", bars |-> [t \in {ticker} |-> bar]]

LedgerBuy(ticker, bar) ==
    LET r == BuyStep([balance |-> balance, portfolio |-> portfolio,
                      trade_log |-> trade_log, attempts |-> <<>>],
                     Signal(ticker, bar))
    IN  /\ cycles < MaxOps
        /\ cycles' = cycles + 1
        /\ data' = OneBar(ticker, bar)
        /\ balance' = r.balance
        /\ portfolio' = r.portfolio
        /\ trade_log' = r.trade_log
        /\ attempts' = r.attempts
        /\ to_sell' = <<>>
        /\ UNCHANGED <<bot_active, market_open, fetches>>

LedgerSell(i, bar) ==
    LET pos == portfolio[i]
        r == ApplySell([balance |-> balance, trade_log |-> trade_log,
                        to_sell |-> <<>>], pos, bar.Close)
    IN  /\ cycles < MaxOps
        /\ cycles' = cycles + 1
        /\ data' = OneBar(pos.ticker, bar)
        /\ balance' = r.balance
        /\ trade_log' = r.trade_log
        /\ to_sell' = r.to_sell
        /\ portfolio' = DelSold(portfolio, r.to_sell)
        /\ UNCHANGED <<bot_active, market_open, fetches, attempts>>

Buy == \E ticker \in Tickers : \E bar \in BarsOf(ticker) :
           LedgerBuy(ticker, bar)

Sell == \E i \in 1..Len(portfolio) : \E bar \in BarsOf(portfolio[i].ticker) :
            LedgerSell(i, bar)

LedgerNext == Buy \/ Sell

LedgerSpec == Init /\ [][LedgerNext]_vars

--------------------------------------------------------------------------
\* Vocabulary of the properties

\* A step that runs execute_trade_cycle.
CycleStep == cycles' = cycles + 1

Range(seq) == {seq[i] : i \in 1..Len(seq)}

\* The iterations of the last buy loop that bought.
Bought == SelectSeq(attempts, LAMBDA a : a.qty > 0)

\* The balance the i-th iteration of the last buy loop left behind.
BalanceAfter(i) ==
    IF i < Len(attempts) THEN attempts[i + 1].balance ELSE balance

\* The last n elements of seq.
LastN(seq, n) == SubSeq(seq, Len(seq) - n + 1, Len(seq))

--------------------------------------------------------------------------
(* C1: the cash balance is never negative; no buy is applied whose cost   *)
(* (price x quantity) exceeds the cash held immediately before it; and an *)
(* iteration of the buy loop that buys nothing leaves the cash, the       *)
(* positions and the trade log as they were: a cycle adds exactly one     *)
(* trade record per sale and per applied buy, and the positions and BUY   *)
(* records it adds are those of the applied buys.                         *)
C1_CashNeverNegative ==
    [][ /\ balance' >= 0
        /\ \A i \in 1..Len(attempts') :
              /\ attempts'[i].balance >= 0
              /\ attempts'[i].qty * attempts'[i].price <= attempts'[i].balance
              /\ attempts'[i].qty = 0 =>
                     BalanceAfter(i)' = attempts'[i].balance
        /\ CycleStep =>
              /\ Len(trade_log') =
                     Len(trade_log) + Len(to_sell') + Len(Bought')
              /\ Len(portfolio') =
                     Len(portfolio) - Len(to_sell') + Len(Bought')
              /\ LastN(portfolio', Len(Bought')) =
                     [i \in 1..Len(Bought') |->
                         Position(Bought'[i].ticker, Bought'[i].qty,
                                  Bought'[i].price)]
              /\ \A i \in 1..Len(Bought') :
                     LET r == LastN(trade_log', Len(Bought'))[i]
                     IN  r.Action = "BUY" /\ r.Ticker = Bought'[i].ticker
                                          /\ r.Qty = Bought'[i].qty
      ]_vars

\* A cycle bought one signal and turned another down for lack of cash.
C1_Witness ==
    /\ \E i \in 1..Len(attempts) : attempts[i].qty > 0
    /\ \E i \in 1..Len(attempts) :
          ~attempts[i].owned /\ attempts[i].qty = 0
    /\ balance < INITIAL_CAPITAL

--------------------------------------------------------------------------
\* Sum over the first n records of the log of BUY Price x Qty minus
\* SELL Price x Qty, as the records store them.
RECURSIVE LogCashFlow(_, _)
LogCashFlow(log, n) ==
    IF n = 0 THEN 0
    ELSE LogCashFlow(log, n - 1)
         + (IF log[n].Action = "BUY" THEN log[n].Price * log[n].Qty
                                     ELSE -(log[n].Price * log[n].Qty))

(* C2: at all times the sum over the trade log of BUY price x quantity,   *)
(* minus the sum of SELL price x quantity, plus the cash equals the       *)
(* initial capital, price and quantity being the values the records hold. *)
C2_LogCashConservation ==
    LogCashFlow(trade_log, Len(trade_log)) + balance = INITIAL_CAPITAL

--------------------------------------------------------------------------
\* The records a step appends to the trade log.
Appended == SubSeq(trade_log', Len(trade_log) + 1, Len(trade_log'))

(* C3: no instrument ever has two open positions, and a cycle applies no  *)
(* buy to an instrument whose position is open when the buy loop starts   *)
(* (held before the cycle and not sold by it), even if it is a signal     *)
(* again: that position keeps its quantity and its entry price.           *)
C3_NoSecondPosition ==
    [][ CycleStep =>
          /\ \A i, j \in 1..Len(portfolio') :
                portfolio'[i].ticker = portfolio'[j].ticker => i = j
          /\ \A i \in 1..Len(portfolio) :
                portfolio[i].ticker \notin Range(to_sell') =>
                   /\ \E j \in 1..Len(portfolio') :
                         portfolio'[j] = portfolio[i]
                   /\ \A k \in 1..Len(Appended) :
                         Appended[k].Action = "BUY" =>
                             Appended[k].Ticker # portfolio[i].ticker
                   /\ \A k \in 1..Len(attempts') :
                         attempts'[k].ticker = portfolio[i].ticker =>
                             attempts'[k].owned /\ attempts'[k].qty = 0
      ]_vars

\* A held instrument was a signal again, at another price, and was skipped.
C3_Witness ==
    \E k \in 1..Len(attempts), i \in 1..Len(portfolio) :
        /\ attempts[k].owned
        /\ portfolio[i].ticker = attempts[k].ticker
        /\ portfolio[i].buy_price # attempts[k].price

--------------------------------------------------------------------------
RECURSIVE CostBasis(_, _)
CostBasis(pf, n) ==
    IF n = 0 THEN 0
    ELSE CostBasis(pf, n - 1) + pf[n].buy_price * pf[n].qty

RECURSIVE RealizedPnL(_, _)
RealizedPnL(log, n) ==
    IF n = 0 THEN 0 ELSE RealizedPnL(log, n - 1) + log[n].PnL

(* C4: in every state the cash plus the sum over the open positions of    *)
(* entry price x quantity equals the initial capital plus the sum of the  *)
(* realized PnL of the trade records.                                     *)
C4_EquityReconciles ==
    balance + CostBasis(portfolio, Len(portfolio))
        = INITIAL_CAPITAL + RealizedPnL(trade_log, Len(trade_log))

--------------------------------------------------------------------------
\* No bar of the frame has a momentum above 0.5%.
NoMomentum(d) ==
    \A t \in DOMAIN d.bars :
        1000 * (d.bars[t].Close - d.bars[t].Open) <= 5 * d.bars[t].Open

\* The position's instrument has a price in d that is at least 2% above
\* or at least 1% below the entry price.
ExitTrigger(pos, d) ==
    /\ d.status = "ok"
    /\ pos.ticker \in DOMAIN d.bars
    /\ \/ 100 * (d.bars[pos.ticker].Close - pos.buy_price)
              >= 2 * pos.buy_price
       \/ 100 * (d.bars[pos.ticker].Close - pos.buy_price)
              <= -pos.buy_price

LedgerUnchanged ==
    /\ balance' = balance
    /\ portfolio' = portfolio
    /\ trade_log' = trade_log

(* C5: a cycle run with the market open on a snapshot in which no         *)
(* instrument has momentum above the threshold and no open position meets *)
(* an exit trigger leaves cash and positions unchanged and appends no     *)
(* trade record (so any number of such cycles gives the same ledger).     *)
C5_QuietCycleIsNoOp ==
    [][ ( /\ CycleStep
          /\ market_open'
          /\ data'.status = "ok"
          /\ NoMomentum(data')
          /\ \A i \in 1..Len(portfolio) : ~ExitTrigger(portfolio[i], data') )
        => LedgerUnchanged ]_vars

\* A quiet cycle has just run: the frame prices a held instrument away
\* from its entry price, inside the band, and holds a bar of exactly +0.5%.
C5_Witness ==
    /\ cycles > 0 /\ market_open /\ data.status = "ok"
    /\ NoMomentum(data)
    /\ to_sell = <<>> /\ attempts = <<>>
    /\ \A i \in 1..Len(portfolio) : ~ExitTrigger(portfolio[i], data)
    /\ \E i \in 1..Len(portfolio) :
          /\ portfolio[i].ticker \in DOMAIN data.bars
          /\ data.bars[portfolio[i].ticker].Close # portfolio[i].buy_price
    /\ \E t \in DOMAIN data.bars :
          1000 * (data.bars[t].Close - data.bars[t].Open)
              = 5 * data.bars[t].Open

--------------------------------------------------------------------------
(* C6: when the market-hours predicate is false the cycle stops at the    *)
(* market-open check: cash, positions and trade log are as before the     *)
(* cycle and no snapshot is fetched.                                      *)
C6_ClosedMarketNoMutation ==
    [][ (CycleStep /\ ~market_open')
        => /\ LedgerUnchanged
           /\ fetches' = fetches
           /\ data' = Unfetched ]_vars

\* A cycle found the market closed while positions were open.
C6_Witness ==
    /\ cycles > 0 /\ ~market_open /\ data = Unfetched
    /\ portfolio # <<>>

--------------------------------------------------------------------------
(* C7: when the snapshot fetch fails (the feed returns no data) the cycle *)
(* changes nothing: no position is closed, none is opened, the cash is    *)
(* unchanged and no trade record is appended; the feed was asked once.    *)
C7_FailedFetchNoMutation ==
    [][ (CycleStep /\ market_open' /\ data'.status = "none")
        => /\ LedgerUnchanged
           /\ to_sell' = <<>>
           /\ attempts' = <<>>
           /\ fetches' = fetches + 1 ]_vars

\* The fetch failed in a cycle that had open positions to look at.
C7_Witness ==
    /\ cycles > 0 /\ market_open /\ data = None
    /\ portfolio # <<>>

--------------------------------------------------------------------------
(* C9: a position open at the start of a market-open cycle is closed in   *)
(* that cycle if and only if its instrument has a current price in the    *)
(* snapshot and pnlPct = (currentPrice - entryPrice) / entryPrice is      *)
(* >= 0.02 or <= -0.01, both bounds inclusive; a position that is not     *)
(* closed, one missing from the snapshot among them, is left untouched.   *)
C9_ExitRule ==
    [][ (CycleStep /\ market_open') =>
          \A i \in 1..Len(portfolio) :
             LET pos == portfolio[i]
                 closed == pos.ticker \in Range(to_sell')
                 sold == \E k \in 1..Len(Appended) :
                            /\ Appended[k].Action = "SELL"
                            /\ Appended[k].Ticker = pos.ticker
                            /\ Appended[k].Qty = pos.qty
             IN  /\ closed <=> ExitTrigger(pos, data')
                 /\ closed <=> sold
                 /\ closed <=> ~(\E j \in 1..Len(portfolio') :
                                    portfolio'[j] = pos)
      ]_vars

\* The log holds a sale at exactly +2% and one at exactly -1% of an entry
\* price of 100.00, and the last cycle left alone a position whose
\* instrument the frame did not hold.
C9_Witness ==
    /\ \E k \in 1..Len(trade_log) :
          /\ trade_log[k].Action = "SELL"
          /\ trade_log[k].Price = 102 * Rupee
          /\ trade_log[k].PnL = trade_log[k].Qty * (2 * Rupee)
    /\ \E k \in 1..Len(trade_log) :
          /\ trade_log[k].Action = "SELL"
          /\ trade_log[k].Price = 99 * Rupee
          /\ trade_log[k].PnL = -(trade_log[k].Qty * Rupee)
    /\ market_open /\ data.status = "ok" /\ to_sell = <<>>
    /\ \E i \in 1..Len(portfolio) :
          portfolio[i].ticker \notin DOMAIN data.bars

--------------------------------------------------------------------------
(* C10: every applied buy has quantity = floor(cash x 0.20 / price) >= 1, *)
(* cash being the balance read immediately before that buy, after the     *)
(* earlier buys of the cycle; when cash x 0.20 <= price nothing is bought *)
(* for that candidate (a cash of 100,000 at a price of 50 sizes to 400).  *)
C10_PositionSizing ==
    /\ \A i \in 1..Len(attempts) :
          LET a == attempts[i]
          IN  /\ BalanceAfter(i) = a.balance - a.qty * a.price
              /\ ~a.owned =>
                    IF a.balance <= 5 * a.price
                    THEN a.qty = 0
                    ELSE a.qty = a.balance \div (5 * a.price) /\ a.qty >= 1
    /\ Len(Bought) <= Len(portfolio)
    /\ \A i \in 1..Len(Bought) :
          LastN(portfolio, Len(Bought))[i].qty = Bought[i].qty
    /\ CanAllocate(100000 * Rupee, 50 * Rupee)
    /\ Quantity(100000 * Rupee, 50 * Rupee) = 400

\* A cycle bought, then turned down a candidate priced at exactly 0.20 of
\* the cash the first buy left, then sized a second buy from that cash.
C10_Witness ==
    /\ Len(attempts) = 3
    /\ attempts[1].qty > 0
    /\ ~attempts[2].owned
    /\ attempts[2].qty = 0
    /\ attempts[2].balance = 5 * attempts[2].price
    /\ attempts[3].qty > 0
    /\ attempts[3].balance = attempts[1].balance
                                - attempts[1].qty * attempts[1].price
    /\ attempts[3].qty = attempts[3].balance \div (5 * attempts[3].price)

--------------------------------------------------------------------------
--------------------------------------------------------------------------
\* Position of a ticker in the watchlist, and in the ascending order of the
\* identifiers ("INFY.NS" < "RELIANCE.NS" < "TCS.NS").
WatchIndex(ticker) == CHOOSE i \in 1..Len(WATCHLIST) : WATCHLIST[i] = ticker

IdRank(ticker) ==
    IF ticker = "INFY.NS" THEN 1 ELSE IF ticker = "RELIANCE.NS" THEN 2 ELSE 3

\* The momentum of a is greater than (equal to) that of b.
MomentumGreater(a, b) == a.change[1] * b.change[2] > b.change[1] * a.change[2]
MomentumEqual(a, b) == a.change[1] * b.change[2] = b.change[1] * a.change[2]

\* The buy loop went through the result of the signal evaluator, in order.
AttemptsFollowSignals ==
    LET opportunities == analyze_market(data)
    IN  /\ Len(attempts) = Len(opportunities)
        /\ \A i \in 1..Len(attempts) :
              /\ attempts[i].ticker = opportunities[i].ticker
              /\ attempts[i].price = opportunities[i].price
              /\ attempts[i].change = opportunities[i].change

(* C11 as stated: buy candidates are ordered by momentum descending, and   *)
(* candidates of equal momentum by instrument identifier ascending; the    *)
(* buys of a cycle are attempted in exactly this order.                    *)
C11_TieByIdentifier ==
    /\ AttemptsFollowSignals
    /\ \A i, j \in 1..Len(attempts) :
          i < j =>
             \/ MomentumGreater(attempts[i], attempts[j])
             \/ /\ MomentumEqual(attempts[i], attempts[j])
                /\ IdRank(attempts[i].ticker) < IdRank(attempts[j].ticker)

(* C11 as amended: buy candidates are ordered by momentum descending, and  *)
(* candidates of equal momentum keep the order of the watchlist; the buys  *)
(* of a cycle are attempted in exactly this order.                         *)
C11_TieByWatchlist ==
    /\ AttemptsFollowSignals
    /\ \A i, j \in 1..Len(attempts) :
          i < j =>
             \/ MomentumGreater(attempts[i], attempts[j])
             \/ /\ MomentumEqual(attempts[i], attempts[j])
                /\ WatchIndex(attempts[i].ticker)
                       < WatchIndex(attempts[j].ticker)

\* A cycle attempted three candidates: two of equal momentum first, in
\* watchlist order and against the order of their identifiers, then one of
\* smaller momentum that comes first in the watchlist.
C11_Witness ==
    /\ Len(attempts) = 3
    /\ MomentumEqual(attempts[1], attempts[2])
    /\ IdRank(attempts[1].ticker) > IdRank(attempts[2].ticker)
    /\ MomentumGreater(attempts[2], attempts[3])
    /\ WatchIndex(attempts[3].ticker) < WatchIndex(attempts[1].ticker)
    /\ attempts[1].qty > 0 /\ attempts[2].qty > 0

--------------------------------------------------------------------------
\* The tickers of the frame whose momentum is strictly above 0.5%.
AboveThreshold(d) ==
    { t \in Tickers \cap DOMAIN d.bars :
        1000 * (d.bars[t].Close - d.bars[t].Open) > 5 * d.bars[t].Open }

(* C12: the buy candidates are exactly the watchlist instruments that are  *)
(* in the snapshot with (close - open) / open strictly above 0.005, each   *)
(* once and at its close; momentum at or below the threshold (open 100,    *)
(* close 100.4) excludes, and an instrument absent from the snapshot is    *)
(* skipped and leaves the other instruments' candidacy as it is.           *)
C12_CandidateSet ==
    /\ ~IsSignal(Bar(100 * Rupee, 100 * Rupee + 160))
    /\ (market_open /\ data.status = "ok") =>
          /\ {attempts[i].ticker : i \in 1..Len(attempts)}
                 = AboveThreshold(data)
          /\ Len(attempts) = Cardinality(AboveThreshold(data))
          /\ \A i \in 1..Len(attempts) :
                attempts[i].price = data.bars[attempts[i].ticker].Close
    /\ (market_open /\ data.status = "none") => attempts = <<>>

\* The frame lacks one ticker, holds one at exactly +0.5% and one above:
\* the last is the only candidate.
C12_Witness ==
    /\ market_open /\ data.status = "ok"
    /\ Cardinality(DOMAIN data.bars) = 2
    /\ \E t \in DOMAIN data.bars :
          1000 * (data.bars[t].Close - data.bars[t].Open)
              = 5 * data.bars[t].Open
    /\ Len(attempts) = 1
    /\ attempts[1].qty > 0

--------------------------------------------------------------------------
\* What the sale of the first n positions of pf that are in sold brings
\* in at the closes of d.
RECURSIVE Proceeds(_, _, _, _)
Proceeds(pf, sold, d, n) ==
    IF n = 0 THEN 0
    ELSE Proceeds(pf, sold, d, n - 1)
         + (IF pf[n].ticker \in Range(sold)
            THEN pf[n].qty * d.bars[pf[n].ticker].Close ELSE 0)

\* The balance with which the buy loop of the last cycle started.
EntryBalance == IF attempts = <<>> THEN balance ELSE attempts[1].balance

(* C13: a sell of an open position adds quantity x price to the cash,      *)
(* removes the position and appends one SELL record whose quantity is the  *)
(* position's and whose realized PnL is quantity x (price - entry price);  *)
(* when the buy loop starts, no instrument sold in the cycle is held.      *)
C13_SellEffect ==
    [][ (CycleStep /\ market_open') =>
          /\ \A i \in 1..Len(portfolio) :
                LET pos == portfolio[i]
                IN  pos.ticker \in Range(to_sell') =>
                       /\ Cardinality({k \in 1..Len(Appended) :
                              /\ Appended[k].Action = "SELL"
                              /\ Appended[k].Ticker = pos.ticker}) = 1
                       /\ \E k \in 1..Len(Appended) :
                             /\ Appended[k].Action = "SELL"
                             /\ Appended[k].Ticker = pos.ticker
                             /\ Appended[k].Qty = pos.qty
                             /\ Appended[k].PnL =
                                    pos.qty * (data'.bars[pos.ticker].Close
                                                 - pos.buy_price)
                       /\ \A k \in 1..Len(attempts') :
                             attempts'[k].ticker = pos.ticker =>
                                 ~attempts'[k].owned
          /\ EntryBalance' =
                balance + Proceeds(portfolio, to_sell', data',
                                   Len(portfolio))
          /\ Len(portfolio') = Len(portfolio) - Len(to_sell') + Len(Bought')
      ]_vars

--------------------------------------------------------------------------
(* C14: the trade log is append-only: the log before any step is a prefix *)
(* of the log after it (no record is changed, moved or removed), and      *)
(* every BUY record has realized PnL 0.                                    *)
C14_AppendOnly ==
    [][ /\ Len(trade_log') >= Len(trade_log)
        /\ SubSeq(trade_log', 1, Len(trade_log)) = trade_log
        /\ \A k \in 1..Len(trade_log') :
              trade_log'[k].Action = "BUY" => trade_log'[k].PnL = 0
      ]_vars

\* A cycle sold and bought on top of a log that already held records, one
\* of them a SELL with a PnL other than 0.
C14_Witness ==
    /\ to_sell # <<>>
    /\ Bought # <<>>
    /\ Len(trade_log) > Len(to_sell) + Len(Bought)
    /\ \E k \in 1..Len(trade_log) :
          trade_log[k].Action = "SELL" /\ trade_log[k].PnL # 0
    /\ trade_log[Len(trade_log)].Action = "BUY"

--------------------------------------------------------------------------
\* The records of the log that are about ticker, in log order.
LogOf(ticker) == SelectSeq(trade_log, LAMBDA r : r.Ticker = ticker)

(* C15: for every instrument, its records in the trade log alternate BUY, *)
(* SELL, BUY, ... starting with BUY, and the instrument has an open       *)
(* position exactly when its last record is a BUY.                         *)
C15_BuySellAlternate ==
    \A t \in Tickers :
        /\ \A k \in 1..Len(LogOf(t)) :
              LogOf(t)[k].Action = (IF k % 2 = 1 THEN "BUY" ELSE "SELL")
        /\ t \in Held(portfolio) <=>
              /\ LogOf(t) # <<>>
              /\ LogOf(t)[Len(LogOf(t))].Action = "BUY"

\* One cycle sold two positions; one of the two instruments was bought
\* again and is held, the other is not.
C15_Witness ==
    /\ Len(to_sell) = 2
    /\ \E t \in Range(to_sell) :
          /\ Len(LogOf(t)) = 3
          /\ t \in Held(portfolio)
    /\ \E t \in Range(to_sell) :
          /\ Len(LogOf(t)) = 2
          /\ t \notin Held(portfolio)

--------------------------------------------------------------------------
(* C16: within one cycle the sells are applied before the buys: every     *)
(* SELL record the cycle appends precedes every BUY record it appends,    *)
(* and the cash from which the first buy of the cycle is sized already    *)
(* holds the proceeds of every sell of the cycle.                          *)
C16_SellsBeforeBuys ==
    [][ (CycleStep /\ market_open') =>
          /\ \A i, j \in 1..Len(Appended) :
                (Appended[i].Action = "SELL" /\ Appended[j].Action = "BUY")
                    => i < j
          /\ Bought' # <<>> =>
                /\ Bought'[1].balance =
                      balance + Proceeds(portfolio, to_sell', data',
                                         Len(portfolio))
                /\ Bought'[1].qty =
                      Bought'[1].balance \div (5 * Bought'[1].price)
      ]_vars

\* A cycle sold one position and bought another instrument with a
\* quantity that the cash without the proceeds would not have reached.
C16_Witness ==
    /\ Len(to_sell) = 1
    /\ Bought # <<>>
    /\ Bought[1].ticker # to_sell[1]
    /\ LET sold == LastN(trade_log, Len(to_sell) + Len(Bought))[1]
       IN  /\ sold.Action = "SELL"
           /\ Bought[1].qty >
                 (Bought[1].balance
                    - sold.Qty * data.bars[to_sell[1]].Close)
                     \div (5 * Bought[1].price)

--------------------------------------------------------------------------
\* The k-th iteration of the last buy loop met a candidate that is not
\* held and whose price the allocatable cash does not exceed.
Unaffordable(k) ==
    /\ ~attempts[k].owned
    /\ attempts[k].balance <= 5 * attempts[k].price

(* C17: a candidate that cannot be bought, because cash x 0.20 does not   *)
(* exceed its price, is skipped without changing cash, positions or the   *)
(* log, and every lower-ranked candidate is still attempted, its          *)
(* allocation computed again from the unchanged cash.                      *)
C17_SkipUnaffordable ==
    [][ (CycleStep /\ market_open') =>
          /\ Len(attempts') = Cardinality(AboveThreshold(data'))
          /\ Len(Appended) = Len(to_sell') + Len(Bought')
          /\ Len(portfolio') = Len(portfolio) - Len(to_sell') + Len(Bought')
          /\ \A k \in 1..Len(attempts') :
                Unaffordable(k)' =>
                   /\ attempts'[k].qty = 0
                   /\ BalanceAfter(k)' = attempts'[k].balance
                   /\ attempts'[k].ticker \notin Held(portfolio')
                   /\ k < Len(attempts') =>
                         LET b == attempts'[k + 1]
                         IN  /\ b.balance = attempts'[k].balance
                             /\ (~b.owned /\ b.balance > 5 * b.price) =>
                                    b.qty = b.balance \div (5 * b.price)
      ]_vars

\* The top candidate of a cycle was out of reach and skipped, and the
\* next one was bought from the same cash.
C17_Witness ==
    /\ Len(attempts) >= 2
    /\ Unaffordable(1)
    /\ attempts[1].qty = 0
    /\ attempts[2].qty > 0
    /\ attempts[2].balance = attempts[1].balance
    /\ attempts[2].qty = attempts[1].balance \div (5 * attempts[2].price)

--------------------------------------------------------------------------
--------------------------------------------------------------------------
\* The bar of the position's instrument in d is at least 2% above the
\* entry price and has momentum strictly above 0.5%.
TakeProfitWithMomentum(pos, d) ==
    /\ d.status = "ok"
    /\ pos.ticker \in DOMAIN d.bars
    /\ LET bar == d.bars[pos.ticker]
       IN  /\ 100 * (bar.Close - pos.buy_price) >= 2 * pos.buy_price
           /\ 1000 * (bar.Close - bar.Open) > 5 * bar.Open

(* C19: an instrument closed by the sell logic of a cycle can be opened   *)
(* again by the buy logic of the same cycle: when one bar both triggers   *)
(* take-profit for the held position and has momentum above the           *)
(* threshold, the instrument is met as not held, and, its price being     *)
(* within the allocatable cash, the cycle appends a SELL and then a BUY   *)
(* for it at the same price and holds it at that price.                    *)
C19_SellThenRebuy ==
    [][ (CycleStep /\ market_open') =>
          \A i \in 1..Len(portfolio) :
              LET pos == portfolio[i]
                  t   == pos.ticker
              IN  TakeProfitWithMomentum(pos, data') =>
                     \E k \in 1..Len(attempts') :
                        /\ attempts'[k].ticker = t
                        /\ ~attempts'[k].owned
                        /\ attempts'[k].balance > 5 * attempts'[k].price =>
                              /\ \E m, n \in 1..Len(Appended) :
                                    /\ m < n
                                    /\ Appended[m].Action = "SELL"
                                    /\ Appended[m].Ticker = t
                                    /\ Appended[n].Action = "BUY"
                                    /\ Appended[n].Ticker = t
                                    /\ Appended[n].Price = Appended[m].Price
                              /\ \E j \in 1..Len(portfolio') :
                                    /\ portfolio'[j].ticker = t
                                    /\ portfolio'[j].buy_price =
                                           data'.bars[t].Close
                                    /\ portfolio'[j].qty = attempts'[k].qty
      ]_vars

\* The last cycle sold an instrument and bought it again: its SELL record
\* is followed by its BUY record at the same price, and it is held.
C19_Witness ==
    \E t \in Range(to_sell) :
        /\ \E k \in 1..Len(Bought) : Bought[k].ticker = t
        /\ t \in Held(portfolio)
        /\ Len(LogOf(t)) >= 3
        /\ LogOf(t)[Len(LogOf(t))].Action = "BUY"
        /\ LogOf(t)[Len(LogOf(t)) - 1].Action = "SELL"
        /\ LogOf(t)[Len(LogOf(t))].Price = LogOf(t)[Len(LogOf(t)) - 1].Price

--------------------------------------------------------------------------
(* C20: each applied buy costs at most 0.20 of the cash held immediately  *)
(* before it, so the cash after a buy is at least 0.80 of the cash before *)
(* it; the cash is strictly positive in every reachable state.             *)
C20_AllocationCap ==
    /\ balance > 0
    /\ \A i \in 1..Len(attempts) :
          LET a == attempts[i]
          IN  /\ a.balance > 0
              /\ 5 * (a.qty * a.price) <= a.balance
              /\ 5 * BalanceAfter(i) >= 4 * a.balance

\* A buy that cost exactly 0.20 of the cash before it.
C20_Witness ==
    \E i \in 1..Len(attempts) :
        /\ attempts[i].qty > 0
        /\ 5 * (attempts[i].qty * attempts[i].price) = attempts[i].balance
        /\ 5 * BalanceAfter(i) = 4 * attempts[i].balance

====
